---- MODULE Spec2Model ----
(***************************************************************************)
(* Model of pkg/cache (cache.go): a two-layer cache, an in-memory LRU      *)
(* (hashicorp/golang-lru) in front of a Redis store (go-redis).            *)
(*                                                                         *)
(* Spec      : one caller; every call of Get, Set, Purge, Stats is one     *)
(*             step that runs the whole method.                            *)
(* SpecEvict : as Spec, with one key more than the largest LRU holds.      *)
(* SpecConc  : several callers; a method is cut at each call it makes to   *)
(*             the LRU (which locks internally) or to Redis, and the       *)
(*             callers' steps interleave.  The call log hist is kept by    *)
(*             the whole-method steps only.                                *)
(* SpecLife  : one caller and one key, with a Set whose remote write may   *)
(*             arrive a tick after its local insert.                       *)
(* SpecNew   : the call of New with any options, and the calls after it.   *)
(* SpecRace  : as SpecConc on one key, with a remote store that answers    *)
(*             every call and a record obs of what the callers have seen.  *)
(* SpecAge   : one caller and one key, with a record obs of how long ago   *)
(*             each value was written.                                     *)
(* Time is counted in clock ticks and measured from the present: now is    *)
(* the origin, and a tick of the clock moves every stored timestamp one    *)
(* unit into the past.  Redis drops a key when its expiry is reached.  A   *)
(* Redis call either reaches the store or fails.                           *)
(***************************************************************************)
EXTENDS Integers, Sequences, FiniteSets, TLC

\* ---------------------------------------------------------------- bounds
MaxTTL == 2         \* Options.DefaultTTL is drawn from 0..MaxTTL

AllKeys == {"x", "y", "z"}
Keys == {"x", "y"}          \* the keys the callers of Spec use
Values == {"1", "2"}
Procs == {"p1", "p2"}

NoValue == "nil"            \* a nil []byte
NoEntry == [present |-> FALSE]
NoExpiry == -1              \* a Redis key stored without expiration

\* errors returned by Get
NilErr == "nil"
ErrNotFound == "item not found in cache"
RedisGetErr == "redis GET error: <cause>"

VARIABLES
    memCache,       \* the LRU: sequence of [key, value, expiresAt], most recently used first
    redisClient,    \* the Redis store: key -> NoEntry or [present, value, expiresAt]
    defaultTTL,     \* Cache.defaultTTL
    maxMemEntries,  \* the size the LRU was built with
    hist,           \* the last two calls that have returned, latest first
    access,         \* the keys the LRU holds, the most recently accessed first
    pc,             \* SpecConc: where each caller stands inside its call
    local,          \* SpecConc: the call's arguments and local variables
    made,           \* what New returned
    obs             \* SpecRace, SpecAge: what an observer of the calls has noted

vars == <<memCache, redisClient, defaultTTL, maxMemEntries, hist, access, pc, local,
          made, obs>>

now == 0                    \* time.Now(): the present is the origin of the clock

\* ------------------------------------------------------- the LRU (lru.Cache)
RECURSIVE IndexOf(_, _)
IndexOf(m, k) ==
    IF m = <<>> THEN 0
    ELSE IF Head(m).key = k THEN 1
    ELSE LET i == IndexOf(Tail(m), k) IN IF i = 0 THEN 0 ELSE i + 1

Contains(m, k) == \E i \in 1..Len(m) : m[i].key = k

Peek(m, k) == m[IndexOf(m, k)]

Without(m, k) == SelectSeq(m, LAMBDA e : e.key # k)

\* a lookup that leaves the order alone, as lru.Cache.Peek does
LruGet_Peek(m, k) == m

\* lru.Cache.Get: a hit moves the entry to the front
LruGet(m, k) ==
    IF Contains(m, k) THEN <<Peek(m, k)>> \o Without(m, k) ELSE m

\* an Add that never evicts
LruAdd_NoEvict(m, k, v, exp, size) ==
    <<[key |-> k, value |-> v, expiresAt |-> exp]>> \o Without(m, k)

\* Add as ContainsOrAdd would do it: an existing key keeps its entry
LruAdd_KeepExisting(m, k, v, exp, size) ==
    IF Contains(m, k) THEN m
    ELSE LET n == <<[key |-> k, value |-> v, expiresAt |-> exp]>> \o m
         IN  IF Len(n) > size THEN SubSeq(n, 1, size) ELSE n

\* lru.Cache.Add: an existing key is updated and moved to the front; a new one
\* is pushed to the front and the oldest is dropped when the size is exceeded
LruAdd(m, k, v, exp, size) ==
    LET e == [key |-> k, value |-> v, expiresAt |-> exp]
        n == <<e>> \o Without(m, k)
    IN  IF Len(n) > size THEN SubSeq(n, 1, size) ELSE n

\* lru.Cache.Remove
LruRemove(m, k) == Without(m, k)

\* lru.Cache.Len
LruLen(m) == Len(m)

\* lru.Cache.Keys: oldest to newest
LruKeys(m) == [i \in 1..Len(m) |-> m[Len(m) + 1 - i].key]

KeySet(m) == {m[i].key : i \in 1..Len(m)}

\* ------------------------------------------------------ Redis (redis.Client)
Live(r, k, t) ==
    /\ r[k].present
    /\ (r[k].expiresAt = NoExpiry \/ t < r[k].expiresAt)

\* GET k: the reply of the store at time t; ok = FALSE is a failed call
RedisGet(r, k, t, ok) ==
    IF ~ok THEN [kind |-> "err", value |-> NoValue]
    ELSE IF Live(r, k, t) THEN [kind |-> "hit", value |-> r[k].value]
    ELSE [kind |-> "nil", value |-> NoValue]

\* SET k v with expiration ttl: go-redis sends no expiry for ttl = 0 and the
\* key is then kept without expiration
RedisSet(r, k, v, ttl, t, ok) ==
    IF ~ok THEN r
    ELSE [r EXCEPT ![k] = [present |-> TRUE, value |-> v,
                           expiresAt |-> IF ttl > 0 THEN t + ttl ELSE NoExpiry]]

\* a DEL that deletes nothing
RedisDel_Noop(r, k, ok) == r

\* DEL k
RedisDel(r, k, ok) ==
    IF ~ok THEN r ELSE [r EXCEPT ![k] = NoEntry]

\* the store at time t: keys whose expiry is reached are gone
RedisExpire(r, t) ==
    [k \in AllKeys |-> IF Live(r, k, t) THEN r[k] ELSE NoEntry]

\* ------------------------------------------------------------ call records
NoReturn == "void"
Idle == <<>>                \* the frame of a caller that is in no call

\* what the Redis store held for k at time t (NoValue: nothing)
Held(r, k, t) == IF Live(r, k, t) THEN r[k].value ELSE NoValue

\* what a call that has returned looked like from outside: its arguments, the
\* time it ran at, for a Get or a Purge what the two layers held for its key
\* when it started (local: absent, fresh or stale; held: the value in Redis), the
\* reply of Redis, the calls it made on the two layers in order, and what it
\* returned
Record(op, id, arg, at, loc, held, rem, calls, val, err, n, ks) ==
    [op |-> op, id |-> id, arg |-> arg, at |-> at, soon |-> FALSE, local |-> loc,
     held |-> held, remote |-> rem, calls |-> calls, val |-> val, err |-> err,
     memLen |-> n, memKeys |-> ks]

\* the call before the latest is kept in short: what it was called with, the
\* reply of Redis and what it returned, and for a Purge what Redis held for
\* its key
Short(rec) ==
    [rec EXCEPT !.at = now, !.soon = FALSE, !.local = "none", !.calls = <<>>,
                !.memLen = 0, !.memKeys = <<>>,
                !.held = IF rec.op = "Purge" THEN @ ELSE NoValue]

\* the log with one more call: soon tells that the call ran less than ttl
\* after the call before it
Log(h, rec, ttl) ==
    IF h = <<>> THEN <<rec>>
    ELSE <<[rec EXCEPT !.soon = rec.at < Head(h).at + ttl], Short(Head(h))>>

\* the order of access, kept by the callers' view of the calls: a key that is
\* inserted or hit moves to the front, and only keys the LRU still holds stay
Kept(a, m) == SelectSeq(a, LAMBDA k : Contains(m, k))
Touched(a, k, m) == Kept(<<k>> \o SelectSeq(a, LAMBDA j : j # k), m)

\* what the LRU held for k at time t, as an observer sees it
Seen(m, k, t) ==
    IF ~Contains(m, k) THEN "absent"
    ELSE IF Peek(m, k).expiresAt > t THEN "fresh"
    ELSE "stale"

\* ------------------------------------------------------------- Cache.Get
\* the expiry test written as !time.Now().After(expiresAt)
GetLocal_NotAfter(m, t, id) ==
    IF ~Contains(m, id) THEN "absent"
    ELSE IF ~(t > Peek(m, id).expiresAt) THEN "fresh"
    ELSE "stale"

\* lines 91-93: the lookup in the LRU and the test time.Now().Before(expiresAt)
GetLocal(m, t, id) ==
    IF ~Contains(m, id) THEN "absent"
    ELSE IF t < Peek(m, id).expiresAt THEN "fresh"
    ELSE "stale"

\* the repopulation without the TTL: expiresAt is time.Now()
Populate_NoTTL(m, id, val, t, ttl, size) == LruAdd(m, id, val, t, size)

\* lines 103-106: the value found in Redis goes into the LRU with a new expiry
Populate(m, id, val, t, ttl, size) == LruAdd(m, id, val, t + ttl, size)

\* the test err != redis.Nil left out: every error is wrapped
GetError_AlwaysWrapped(kind) == RedisGetErr

\* the wrapping left out: every error is ErrNotFound
GetError_AlwaysNotFound(kind) == ErrNotFound

\* lines 109-114: redis.Nil becomes ErrNotFound, any other error is wrapped
GetError(kind) == IF kind # "nil" THEN RedisGetErr ELSE ErrNotFound

\* the whole method: the LRU afterwards and the record of the call
CacheGet(m, r, ttl, size, t, id, ok) ==
    LET loc == GetLocal(m, t, id)
        m1 == LruGet(m, id)
        seen == Seen(m, id, t)
        held == Held(r, id, t)
    IN  IF loc = "fresh"
        THEN [mem |-> m1,
              rec |-> Record("Get", id, NoValue, t, seen, held, "none",
                             <<"memCache.Get">>, Peek(m, id).value, NilErr, 0, <<>>)]
        ELSE LET m2 == IF loc = "stale" THEN LruRemove(m1, id) ELSE m1
                 pre == IF loc = "stale" THEN <<"memCache.Get", "memCache.Remove">>
                        ELSE <<"memCache.Get">>
                 reply == RedisGet(r, id, t, ok)
             IN  IF reply.kind = "hit"
                 THEN [mem |-> Populate(m2, id, reply.value, t, ttl, size),
                       rec |-> Record("Get", id, NoValue, t, seen, held, "hit",
                                      pre \o <<"redisClient.Get", "memCache.Add">>,
                                      reply.value, NilErr, 0, <<>>)]
                 ELSE [mem |-> m2,
                       rec |-> Record("Get", id, NoValue, t, seen, held, reply.kind,
                                      pre \o <<"redisClient.Get">>,
                                      NoValue, GetError(reply.kind), 0, <<>>)]

\* ------------------------------------------------------------- Cache.Set
\* a Set that takes its local write back when the Redis write fails
CacheSet_Rollback(m, r, ttl, size, t, id, value, ok) ==
    [mem |-> IF ok THEN LruAdd(m, id, value, t + ttl, size) ELSE LruRemove(m, id),
     redis |-> RedisSet(r, id, value, ttl, t, ok),
     rec |-> Record("Set", id, value, t, "none", NoValue,
                    IF ok THEN "ok" ELSE "err",
                    <<"memCache.Add", "redisClient.Set">>, NoValue, NoReturn, 0, <<>>)]

\* a Set that reads a zero TTL as the shortest one
CacheSet_ZeroAsOne(m, r, ttl, size, t, id, value, ok) ==
    LET expiresAt == t + (IF ttl = 0 THEN 1 ELSE ttl)
    IN  [mem |-> LruAdd(m, id, value, expiresAt, size),
         redis |-> RedisSet(r, id, value, ttl, t, ok),
         rec |-> Record("Set", id, value, t, "none", NoValue,
                        IF ok THEN "ok" ELSE "err",
                        <<"memCache.Add", "redisClient.Set">>, NoValue, NoReturn, 0, <<>>)]

\* lines 118-124
CacheSet(m, r, ttl, size, t, id, value, ok) ==
    LET expiresAt == t + ttl
    IN  [mem |-> LruAdd(m, id, value, expiresAt, size),
         redis |-> RedisSet(r, id, value, ttl, t, ok),
         rec |-> Record("Set", id, value, t, "none", NoValue,
                        IF ok THEN "ok" ELSE "err",
                        <<"memCache.Add", "redisClient.Set">>, NoValue, NoReturn, 0, <<>>)]

\* ----------------------------------------------------------- Cache.Purge
\* a Purge that deletes from Redis only
CachePurge_RemoteOnly(m, r, t, id, ok) ==
    [mem |-> m,
     redis |-> RedisDel(r, id, ok),
     rec |-> Record("Purge", id, NoValue, t, Seen(m, id, t), Held(r, id, t),
                    IF ok THEN "ok" ELSE "err",
                    <<"memCache.Remove", "redisClient.Del">>, NoValue, NoReturn, 0, <<>>)]

\* a Purge that empties the LRU (memCache.Purge() in place of Remove(id))
CachePurge_Flush(m, r, t, id, ok) ==
    [mem |-> <<>>,
     redis |-> RedisDel(r, id, ok),
     rec |-> Record("Purge", id, NoValue, t, Seen(m, id, t), Held(r, id, t),
                    IF ok THEN "ok" ELSE "err",
                    <<"memCache.Remove", "redisClient.Del">>, NoValue, NoReturn, 0, <<>>)]

\* lines 127-130
CachePurge(m, r, t, id, ok) ==
    [mem |-> LruRemove(m, id),
     redis |-> RedisDel(r, id, ok),
     rec |-> Record("Purge", id, NoValue, t, Seen(m, id, t), Held(r, id, t),
                    IF ok THEN "ok" ELSE "err",
                    <<"memCache.Remove", "redisClient.Del">>, NoValue, NoReturn, 0, <<>>)]

\* ----------------------------------------------------------- Cache.Stats
\* a Stats that counts the unexpired entries only
CacheStats_FreshOnly(m, t) ==
    LET f == SelectSeq(m, LAMBDA e : t < e.expiresAt)
    IN  Record("Stats", "", NoValue, t, "none", NoValue, "none",
               <<"memCache.Len", "memCache.Keys">>, NoValue, NoReturn, LruLen(f), LruKeys(f))

\* lines 133-140: MemLen and MemKeys, the other fields of Stats stay zero
CacheStats(m, t) ==
    Record("Stats", "", NoValue, t, "none", NoValue, "none",
           <<"memCache.Len", "memCache.Keys">>, NoValue, NoReturn, LruLen(m), LruKeys(m))

\* ------------------------------------------------------------------- New
NoClient == "nil"           \* opts.RedisClient == nil
Supplied == "supplied"      \* the *redis.Client the caller passed in opts
Created == "created"        \* the client New made with redis.NewClient

LruNewErr == "failed to create memory cache: <cause>"
PingErr == "failed to connect to redis: <cause>"

Options(size, ttl, client, ping) ==
    [MaxMemEntries |-> size, DefaultTTL |-> ttl, RedisClient |-> client, ping |-> ping]

\* what New hands back: cache tells whether the *Cache is non-nil, client is
\* the handle the cache holds, pinged whether New sent a PING
Made(opts, cache, err, client, pinged) ==
    [called |-> TRUE, opts |-> opts, cache |-> cache, err |-> err,
     client |-> client, pinged |-> pinged]

NotCalled ==
    [called |-> FALSE, opts |-> Options(0, 0, NoClient, FALSE), cache |-> FALSE,
     err |-> NilErr, client |-> NoClient, pinged |-> FALSE]

\* a New that takes any size
CacheNew_AnySize(opts) ==
    IF opts.RedisClient = NoClient /\ ~opts.ping
    THEN [made |-> Made(opts, FALSE, PingErr, NoClient, TRUE),
          mem |-> <<>>, ttl |-> 0, size |-> 0]
    ELSE [made |-> Made(opts, TRUE, NilErr,
                        IF opts.RedisClient = NoClient THEN Created ELSE Supplied,
                        opts.RedisClient = NoClient),
          mem |-> <<>>, ttl |-> opts.DefaultTTL, size |-> opts.MaxMemEntries]

\* lines 59-85.  lru.New refuses a size that is not positive; a client is made
\* and pinged only when none is supplied; opts.ping is the answer a PING
\* would get
CacheNew(opts) ==
    IF opts.MaxMemEntries <= 0
    THEN [made |-> Made(opts, FALSE, LruNewErr, NoClient, FALSE),
          mem |-> <<>>, ttl |-> 0, size |-> 0]
    ELSE IF opts.RedisClient = NoClient /\ ~opts.ping
    THEN [made |-> Made(opts, FALSE, PingErr, NoClient, TRUE),
          mem |-> <<>>, ttl |-> 0, size |-> 0]
    ELSE [made |-> Made(opts, TRUE, NilErr,
                        IF opts.RedisClient = NoClient THEN Created ELSE Supplied,
                        opts.RedisClient = NoClient),
          mem |-> <<>>, ttl |-> opts.DefaultTTL, size |-> opts.MaxMemEntries]

\* what the callers of SpecRace have seen of the calls so far.
\*   purge[k]: "purging" while a Purge(k) runs that began when no Set(k) and no
\*             other Purge(k) was running, "purged" once it has returned;
\*             "none" again as soon as a Set(k) begins;
\*   after[p]: the Get that caller p runs began when its key was "purged", and
\*             no Set of the key has begun since;
\*   ret:      the latest Get that has returned and what it returned
NoRet == [p |-> "none", id |-> "", val |-> NoValue, err |-> NilErr, after |-> FALSE]

Ret(p, id, val, err, after) ==
    [p |-> p, id |-> id, val |-> val, err |-> err, after |-> after]

NoObs ==
    [purge |-> [k \in AllKeys |-> "none"],
     after |-> [p \in Procs |-> FALSE],
     ret |-> NoRet]

\* ------------------------------------------------------------------ Init
\* New(opts) has returned: an empty LRU of opts.MaxMemEntries entries, the
\* configured TTL, a Redis store (handed in by the caller) that holds nothing
\* yet
Init ==
    /\ memCache = <<>>
    /\ redisClient = [k \in AllKeys |-> NoEntry]
    /\ defaultTTL \in 0..MaxTTL
    /\ maxMemEntries \in 1..Cardinality(Keys)
    /\ hist = <<>>
    /\ access = <<>>
    /\ pc = [p \in Procs |-> "idle"]
    /\ local = [p \in Procs |-> Idle]
    /\ made = CacheNew(Options(maxMemEntries, defaultTTL, Supplied, TRUE)).made
    /\ obs = NoObs

\* --------------------------------------------- one caller, whole methods
\* a Get that renews the remote expiry of a key it is served from the remote
\* store (GETEX in place of GET)
Get_Refresh(id, ok) ==
    LET c == CacheGet(memCache, redisClient, defaultTTL, maxMemEntries, now, id, ok)
    IN  /\ memCache' = c.mem
        /\ redisClient' = IF c.rec.remote = "hit"
                          THEN RedisSet(redisClient, id, c.rec.val, defaultTTL, now, TRUE)
                          ELSE redisClient
        /\ hist' = Log(hist, c.rec, defaultTTL)
        /\ access' = IF c.rec.err = NilErr THEN Touched(access, id, c.mem)
                      ELSE Kept(access, c.mem)
        /\ UNCHANGED <<defaultTTL, maxMemEntries, pc, local, made, obs>>

Get(id, ok) ==
    LET c == CacheGet(memCache, redisClient, defaultTTL, maxMemEntries, now, id, ok)
    IN  /\ memCache' = c.mem
        /\ hist' = Log(hist, c.rec, defaultTTL)
        /\ access' = IF c.rec.err = NilErr THEN Touched(access, id, c.mem)
                      ELSE Kept(access, c.mem)
        /\ UNCHANGED <<redisClient, defaultTTL, maxMemEntries, pc, local, made, obs>>

Set(id, value, ok) ==
    LET c == CacheSet(memCache, redisClient, defaultTTL, maxMemEntries, now, id, value, ok)
    IN  /\ memCache' = c.mem
        /\ redisClient' = c.redis
        /\ hist' = Log(hist, c.rec, defaultTTL)
        /\ access' = Touched(access, id, c.mem)
        /\ UNCHANGED <<defaultTTL, maxMemEntries, pc, local, made, obs>>

Purge(id, ok) ==
    LET c == CachePurge(memCache, redisClient, now, id, ok)
    IN  /\ memCache' = c.mem
        /\ redisClient' = c.redis
        /\ hist' = Log(hist, c.rec, defaultTTL)
        /\ access' = Kept(access, c.mem)
        /\ UNCHANGED <<defaultTTL, maxMemEntries, pc, local, made, obs>>

Stats ==
    /\ hist' = Log(hist, CacheStats(memCache, now), defaultTTL)
    /\ UNCHANGED <<memCache, redisClient, defaultTTL, maxMemEntries, access, pc, local, made, obs>>

\* one unit earlier on the clock, but never before the given time
Earlier(t, floor) == IF t - 1 < floor THEN floor ELSE t - 1

\* the clock advances by one tick.  Every timestamp moves one unit into the
\* past; an expiresAt that is reached stays at now (the entry is stale from
\* then on), Redis drops the keys whose expiry is reached, and the call log
\* stops ageing once its latest call is a whole defaultTTL old
MemTick(m) ==
    [i \in DOMAIN m |-> [m[i] EXCEPT !.expiresAt = Earlier(@, now)]]

RedisTick(r) ==
    RedisExpire(
        [k \in AllKeys |->
            IF r[k].present /\ r[k].expiresAt # NoExpiry
            THEN [r[k] EXCEPT !.expiresAt = @ - 1]
            ELSE r[k]], now)

HistTick(h, ttl) ==
    IF h = <<>> \/ Head(h).at <= now - ttl
    THEN h
    ELSE [h EXCEPT ![1].at = @ - 1]

Tick ==
    /\ memCache' = MemTick(memCache)
    /\ redisClient' = RedisTick(redisClient)
    /\ hist' = HistTick(hist, defaultTTL)
    /\ UNCHANGED <<defaultTTL, maxMemEntries, access, pc, local, made, obs>>

Next ==
    \/ \E id \in Keys, ok \in BOOLEAN : Get(id, ok)
    \/ \E id \in Keys, value \in Values, ok \in BOOLEAN : Set(id, value, ok)
    \/ \E id \in Keys, ok \in BOOLEAN : Purge(id, ok)
    \/ Stats
    \/ Tick

Spec == Init /\ [][Next]_vars

\* one caller and one key more than the largest LRU, so that an LRU of two
\* entries evicts; the TTL is the longest one, every Set stores the same value,
\* and of the remote calls only the lookup of Get can fail
InitEvict == Init /\ defaultTTL = MaxTTL

NextEvict ==
    \/ \E id \in AllKeys, ok \in BOOLEAN : Get(id, ok)
    \/ \E id \in AllKeys : Set(id, "1", TRUE)
    \/ \E id \in AllKeys : Purge(id, TRUE)
    \/ Tick

SpecEvict == InitEvict /\ [][NextEvict]_vars

\* one caller and one key, with a Set whose remote write may reach the store
\* a tick after the local insert: lines 119-121 run, the clock ticks while the
\* SET of line 123 is on its way, and Redis counts the TTL from its arrival
SetLate(id, value, ok) ==
    LET m1 == LruAdd(memCache, id, value, now + defaultTTL, maxMemEntries)
        m2 == MemTick(m1)
        r2 == RedisSet(RedisTick(redisClient), id, value, defaultTTL, now, ok)
        rec == Record("Set", id, value, now, "none", NoValue,
                      IF ok THEN "ok" ELSE "err",
                      <<"memCache.Add", "redisClient.Set">>, NoValue, NoReturn, 0, <<>>)
    IN  /\ memCache' = m2
        /\ redisClient' = r2
        /\ hist' = Log(HistTick(hist, defaultTTL), rec, defaultTTL)
        /\ access' = Touched(access, id, m2)
        /\ UNCHANGED <<defaultTTL, maxMemEntries, pc, local, made, obs>>

OneKey == {"x"}

NextLife ==
    \/ \E id \in OneKey, ok \in BOOLEAN : Get(id, ok)
    \/ \E id \in OneKey, value \in Values, ok \in BOOLEAN : Set(id, value, ok)
    \/ \E id \in OneKey, value \in Values, ok \in BOOLEAN : SetLate(id, value, ok)
    \/ \E id \in OneKey, ok \in BOOLEAN : Purge(id, ok)
    \/ Tick

SpecLife == Init /\ [][NextLife]_vars

\* the construction itself: New is called once, with any options, and the
\* calls of one caller follow when it has returned a cache
InitNew ==
    /\ memCache = <<>>
    /\ redisClient = [k \in AllKeys |-> NoEntry]
    /\ defaultTTL = 0
    /\ maxMemEntries = 0
    /\ hist = <<>>
    /\ access = <<>>
    /\ pc = [p \in Procs |-> "idle"]
    /\ local = [p \in Procs |-> Idle]
    /\ made = NotCalled
    /\ obs = NoObs

New(opts) ==
    /\ ~made.called
    /\ LET c == CacheNew(opts)
       IN  /\ made' = c.made
           /\ memCache' = c.mem
           /\ defaultTTL' = c.ttl
           /\ maxMemEntries' = c.size
    /\ UNCHANGED <<redisClient, hist, access, pc, local, obs>>

Sizes == -1..Cardinality(Keys)

NextNew ==
    \/ \E size \in Sizes, ttl \in 0..MaxTTL, client \in {NoClient, Supplied},
          ping \in BOOLEAN : New(Options(size, ttl, client, ping))
    \/ \E id \in OneKey, ok \in BOOLEAN : made.cache /\ Get(id, ok)
    \/ \E id \in OneKey, value \in Values, ok \in BOOLEAN : made.cache /\ Set(id, value, ok)
    \/ \E id \in OneKey, ok \in BOOLEAN : made.cache /\ Purge(id, ok)
    \/ made.cache /\ Tick

SpecNew == InitNew /\ [][NextNew]_vars

\* ------------------------------- several callers, one step per layer call
Frame(op, id, value) == [op |-> op, id |-> id, value |-> value]

Goto(p, label, frame) ==
    /\ pc' = [pc EXCEPT ![p] = label]
    /\ local' = [local EXCEPT ![p] = frame]

Return(p) == Goto(p, "idle", Idle)

\* Get, lines 91-97 up to the call of Remove: the lookup and the expiry test
GetStart(p, id) ==
    /\ pc[p] = "idle"
    /\ memCache' = LruGet(memCache, id)
    /\ LET loc == GetLocal(memCache, now, id)
       IN  IF loc = "fresh" THEN Return(p)
           ELSE IF loc = "stale" THEN Goto(p, "get_remove", Frame("Get", id, NoValue))
           ELSE Goto(p, "get_redis", Frame("Get", id, NoValue))
    /\ UNCHANGED <<redisClient, defaultTTL, maxMemEntries, made, hist>>
    /\ access' = IF GetLocal(memCache, now, id) = "fresh"
                 THEN Touched(access, id, memCache') ELSE Kept(access, memCache')

\* Get, line 96
GetRemove(p) ==
    /\ pc[p] = "get_remove"
    /\ memCache' = LruRemove(memCache, local[p].id)
    /\ Goto(p, "get_redis", local[p])
    /\ UNCHANGED <<redisClient, defaultTTL, maxMemEntries, made, hist>>
    /\ access' = Kept(access, memCache')

\* Get, line 100 and the returns of lines 109-114
GetRedis(p, ok) ==
    /\ pc[p] = "get_redis"
    /\ LET reply == RedisGet(redisClient, local[p].id, now, ok)
       IN  IF reply.kind = "hit"
           THEN Goto(p, "get_add", Frame("Get", local[p].id, reply.value))
           ELSE Return(p)
    /\ UNCHANGED <<memCache, redisClient, defaultTTL, maxMemEntries, made, hist, access>>

\* Get, lines 103-107
GetAdd(p) ==
    /\ pc[p] = "get_add"
    /\ memCache' = Populate(memCache, local[p].id, local[p].value,
                            now, defaultTTL, maxMemEntries)
    /\ Return(p)
    /\ UNCHANGED <<redisClient, defaultTTL, maxMemEntries, made, hist>>
    /\ access' = Touched(access, local[p].id, memCache')

\* a Set that writes the remote store first
SetStart_RemoteFirst(p, id, value) ==
    /\ pc[p] = "idle"
    /\ redisClient' = RedisSet(redisClient, id, value, defaultTTL, now, TRUE)
    /\ Goto(p, "set_redis", Frame("Set", id, value))
    /\ UNCHANGED <<memCache, defaultTTL, maxMemEntries, made, hist, access>>

\* Set, lines 119-121
SetStart(p, id, value) ==
    /\ pc[p] = "idle"
    /\ memCache' = LruAdd(memCache, id, value, now + defaultTTL, maxMemEntries)
    /\ Goto(p, "set_redis", Frame("Set", id, value))
    /\ UNCHANGED <<redisClient, defaultTTL, maxMemEntries, made, hist>>
    /\ access' = Touched(access, id, memCache')

\* Set, line 123
SetRedis(p, ok) ==
    /\ pc[p] = "set_redis"
    /\ redisClient' = RedisSet(redisClient, local[p].id, local[p].value, defaultTTL, now, ok)
    /\ Return(p)
    /\ UNCHANGED <<memCache, defaultTTL, maxMemEntries, made, hist, access>>

\* Purge, line 128
PurgeStart(p, id) ==
    /\ pc[p] = "idle"
    /\ memCache' = LruRemove(memCache, id)
    /\ Goto(p, "purge_redis", Frame("Purge", id, NoValue))
    /\ UNCHANGED <<redisClient, defaultTTL, maxMemEntries, made, hist>>
    /\ access' = Kept(access, memCache')

\* Purge, line 129
PurgeRedis(p, ok) ==
    /\ pc[p] = "purge_redis"
    /\ redisClient' = RedisDel(redisClient, local[p].id, ok)
    /\ Return(p)
    /\ UNCHANGED <<memCache, defaultTTL, maxMemEntries, made, hist, access>>

\* Stats, line 137
StatsLen(p) ==
    /\ pc[p] = "idle"
    /\ Goto(p, "stats_keys", [op |-> "Stats", MemLen |-> LruLen(memCache)])
    /\ UNCHANGED <<memCache, redisClient, defaultTTL, maxMemEntries, made, hist, access>>

\* Stats, line 138
StatsKeys(p) ==
    /\ pc[p] = "stats_keys"
    /\ Return(p)
    /\ UNCHANGED <<memCache, redisClient, defaultTTL, maxMemEntries, made, hist, access>>

NextConc ==
    \/ \E p \in Procs, id \in Keys : GetStart(p, id) /\ UNCHANGED obs
    \/ \E p \in Procs : GetRemove(p) /\ UNCHANGED obs
    \/ \E p \in Procs, ok \in BOOLEAN : GetRedis(p, ok) /\ UNCHANGED obs
    \/ \E p \in Procs : GetAdd(p) /\ UNCHANGED obs
    \/ \E p \in Procs, id \in Keys, value \in Values : SetStart(p, id, value) /\ UNCHANGED obs
    \/ \E p \in Procs, ok \in BOOLEAN : SetRedis(p, ok) /\ UNCHANGED obs
    \/ \E p \in Procs, id \in Keys : PurgeStart(p, id) /\ UNCHANGED obs
    \/ \E p \in Procs, ok \in BOOLEAN : PurgeRedis(p, ok) /\ UNCHANGED obs
    \/ \E p \in Procs : StatsLen(p) /\ UNCHANGED obs
    \/ \E p \in Procs : StatsKeys(p) /\ UNCHANGED obs
    \/ Tick

SpecConc == Init /\ [][NextConc]_vars

\* two callers on one key, a remote store that answers every call, and the
\* record obs of what has happened
Running(op, id) ==
    \E q \in Procs : pc[q] # "idle" /\ local[q].op = op /\ local[q].id = id

RaceGetStart(p, id) ==
    /\ GetStart(p, id)
    /\ LET after == obs.purge[id] = "purged"
       IN  obs' = [obs EXCEPT
                    !.after[p] = after,
                    !.ret = IF pc'[p] = "idle"
                            THEN Ret(p, id, Peek(memCache, id).value, NilErr, after)
                            ELSE @]

RaceGetRedis(p) ==
    /\ GetRedis(p, TRUE)
    /\ obs' = [obs EXCEPT
                !.ret = IF pc'[p] = "idle"
                        THEN Ret(p, local[p].id, NoValue,
                                 GetError(RedisGet(redisClient, local[p].id, now, TRUE).kind),
                                 obs.after[p])
                        ELSE @]

RaceGetAdd(p) ==
    /\ GetAdd(p)
    /\ obs' = [obs EXCEPT
                !.ret = Ret(p, local[p].id, local[p].value, NilErr, obs.after[p])]

RaceSetStart(p, id, value) ==
    /\ SetStart(p, id, value)
    /\ obs' = [obs EXCEPT
                !.purge[id] = "none",
                !.after = [q \in Procs |->
                              IF pc[q] # "idle" /\ local[q].id = id THEN FALSE ELSE @[q]]]

RacePurgeStart(p, id) ==
    /\ PurgeStart(p, id)
    /\ obs' = [obs EXCEPT
                !.purge[id] = IF Running("Set", id) \/ Running("Purge", id)
                              THEN "none" ELSE "purging"]

RacePurgeRedis(p) ==
    /\ PurgeRedis(p, TRUE)
    /\ obs' = [obs EXCEPT
                !.purge[local[p].id] = IF @ = "purging" THEN "purged" ELSE "none"]

InitRace == Init /\ maxMemEntries = 1

NextRace ==
    \/ \E p \in Procs, id \in OneKey : RaceGetStart(p, id)
    \/ \E p \in Procs : GetRemove(p) /\ UNCHANGED obs
    \/ \E p \in Procs : RaceGetRedis(p)
    \/ \E p \in Procs : RaceGetAdd(p)
    \/ \E p \in Procs, id \in OneKey, value \in Values : RaceSetStart(p, id, value)
    \/ \E p \in Procs : SetRedis(p, TRUE) /\ UNCHANGED obs
    \/ \E p \in Procs, id \in OneKey : RacePurgeStart(p, id)
    \/ \E p \in Procs : RacePurgeRedis(p)
    \/ Tick

SpecRace == InitRace /\ [][NextRace]_vars

\* one caller and one key, and in obs the age of every value: the ticks
\* since the latest Set(k, v) returned, up to OldAge, which stands for any
\* longer time and for never; got is the age the value of the latest
\* successful Get had when the Get returned
OldAge == 2 * MaxTTL + 1

NoGot == [id |-> "", val |-> NoValue, age |-> 0]

NoAges ==
    [age |-> [k \in AllKeys |-> [v \in Values |-> OldAge]], got |-> NoGot]

InitAge ==
    /\ memCache = <<>>
    /\ redisClient = [k \in AllKeys |-> NoEntry]
    /\ defaultTTL \in 0..MaxTTL
    /\ maxMemEntries = 1
    /\ hist = <<>>
    /\ access = <<>>
    /\ pc = [p \in Procs |-> "idle"]
    /\ local = [p \in Procs |-> Idle]
    /\ made = CacheNew(Options(maxMemEntries, defaultTTL, Supplied, TRUE)).made
    /\ obs = NoAges

AgeGet(id, ok) ==
    LET c == CacheGet(memCache, redisClient, defaultTTL, maxMemEntries, now, id, ok)
    IN  /\ memCache' = c.mem
        /\ hist' = Log(hist, c.rec, defaultTTL)
        /\ access' = IF c.rec.err = NilErr THEN Touched(access, id, c.mem)
                      ELSE Kept(access, c.mem)
        /\ obs' = IF c.rec.err = NilErr
                  THEN [obs EXCEPT !.got = [id |-> id, val |-> c.rec.val,
                                            age |-> obs.age[id][c.rec.val]]]
                  ELSE obs
        /\ UNCHANGED <<redisClient, defaultTTL, maxMemEntries, pc, local, made>>

AgeSet(id, value, ok) ==
    LET c == CacheSet(memCache, redisClient, defaultTTL, maxMemEntries, now, id, value, ok)
    IN  /\ memCache' = c.mem
        /\ redisClient' = c.redis
        /\ hist' = Log(hist, c.rec, defaultTTL)
        /\ access' = Touched(access, id, c.mem)
        /\ obs' = [obs EXCEPT !.age[id][value] = 0]
        /\ UNCHANGED <<defaultTTL, maxMemEntries, pc, local, made>>

AgePurge(id, ok) ==
    LET c == CachePurge(memCache, redisClient, now, id, ok)
    IN  /\ memCache' = c.mem
        /\ redisClient' = c.redis
        /\ hist' = Log(hist, c.rec, defaultTTL)
        /\ access' = Kept(access, c.mem)
        /\ UNCHANGED <<defaultTTL, maxMemEntries, pc, local, made, obs>>

AgeTick ==
    /\ memCache' = MemTick(memCache)
    /\ redisClient' = RedisTick(redisClient)
    /\ hist' = HistTick(hist, defaultTTL)
    /\ obs' = [obs EXCEPT !.age = [k \in AllKeys |-> [v \in Values |->
                    IF obs.age[k][v] < OldAge THEN obs.age[k][v] + 1 ELSE OldAge]]]
    /\ UNCHANGED <<defaultTTL, maxMemEntries, access, pc, local, made>>

NextAge ==
    \/ \E id \in OneKey, ok \in BOOLEAN : AgeGet(id, ok)
    \/ \E id \in OneKey, value \in Values, ok \in BOOLEAN : AgeSet(id, value, ok)
    \/ \E id \in OneKey, ok \in BOOLEAN : AgePurge(id, ok)
    \/ AgeTick

SpecAge == InitAge /\ [][NextAge]_vars

\* ------------------------------------------------------------ the claims
RemoteCalls == {"redisClient.Get", "redisClient.Set", "redisClient.Del"}

\* the call made no call to the remote store
NoRemoteCall(rec) == \A i \in DOMAIN rec.calls : rec.calls[i] \notin RemoteCalls

\* the latest call is a Get of the key of the call before it, made while less
\* than defaultTTL has passed since that call
GetWithinTTL ==
    /\ Len(hist) = 2
    /\ hist[1].op = "Get"
    /\ hist[1].id = hist[2].id
    /\ hist[1].soon

\* the entry the LRU holds for k is exactly {v, exp}, and it is the only one
HoldsOnly(m, k, v, exp) ==
    /\ Len(SelectSeq(m, LAMBDA e : e.key = k)) = 1
    /\ Peek(m, k).value = v
    /\ Peek(m, k).expiresAt = exp

\* C1: a Get(k) that directly follows Set(k, v), less than defaultTTL after
\* it, returns v with no error and makes no call to the remote store.
C1_LocalHitAfterSet ==
    (GetWithinTTL /\ hist[2].op = "Set")
        => /\ hist[1].val = hist[2].arg
           /\ hist[1].err = NilErr
           /\ NoRemoteCall(hist[1])

C1_Witness ==
    /\ GetWithinTTL
    /\ hist[2].op = "Set"
    /\ hist[1].val = hist[2].arg
    /\ hist[1].remote = "none"

\* C2: a Get(k) that finds k absent from the LRU while Redis holds k with value
\* v and answers the lookup returns v and leaves {v, now + defaultTTL} in the
\* LRU; a second Get(k) that directly follows it within the TTL returns v and
\* makes no call to the remote store.
C2_RemoteFallbackRepopulates ==
    /\ (/\ hist # <<>>
        /\ hist[1].op = "Get"
        /\ hist[1].local = "absent"
        /\ hist[1].held # NoValue
        /\ hist[1].remote # "err")
        => /\ hist[1].val = hist[1].held
           /\ hist[1].err = NilErr
           /\ HoldsOnly(memCache, hist[1].id, hist[1].held, hist[1].at + defaultTTL)
    /\ (/\ GetWithinTTL
        /\ hist[2].op = "Get"
        /\ hist[2].remote = "hit")
        => /\ hist[1].val = hist[2].val
           /\ hist[1].err = NilErr
           /\ NoRemoteCall(hist[1])

C2_Witness ==
    /\ GetWithinTTL
    /\ hist[2].op = "Get"
    /\ hist[2].remote = "hit"
    /\ hist[1].val = hist[2].val
    /\ hist[1].remote = "none"

\* C3: a Get(k) that finds a local entry for k whose expiresAt is not in the
\* future does not answer from it: it removes the entry, then makes the remote
\* lookup, and what it returns and what the LRU holds for k afterwards come
\* from the reply of the remote store alone.
C3_StaleEntryRemovedThenRemote ==
    (/\ hist # <<>>
     /\ hist[1].op = "Get"
     /\ hist[1].local = "stale")
        => /\ Len(hist[1].calls) >= 3
           /\ SubSeq(hist[1].calls, 1, 3) =
                  <<"memCache.Get", "memCache.Remove", "redisClient.Get">>
           /\ hist[1].remote \in {"hit", "nil", "err"}
           /\ IF hist[1].remote = "hit"
              THEN /\ hist[1].val = hist[1].held
                   /\ HoldsOnly(memCache, hist[1].id, hist[1].held,
                                hist[1].at + defaultTTL)
              ELSE /\ hist[1].val = NoValue
                   /\ ~Contains(memCache, hist[1].id)

C3_Witness ==
    /\ hist # <<>>
    /\ hist[1].op = "Get"
    /\ hist[1].local = "stale"
    /\ hist[1].remote = "nil"
    /\ ~Contains(memCache, hist[1].id)

\* C5: a Get(k) for a key the LRU does not hold and the remote store reports
\* as not existing returns ErrNotFound and no value, and leaves the LRU
\* without an entry for k.
C5_MissOnBothLayers ==
    (/\ hist # <<>>
     /\ hist[1].op = "Get"
     /\ hist[1].local = "absent"
     /\ hist[1].remote = "nil")
        => /\ hist[1].err = ErrNotFound
           /\ hist[1].val = NoValue
           /\ ~Contains(memCache, hist[1].id)

\* the first call ever is a Get: its key was never Set
C5_Witness ==
    /\ Len(hist) = 1
    /\ hist[1].op = "Get"
    /\ hist[1].local = "absent"
    /\ hist[1].remote = "nil"
    /\ hist[1].err = ErrNotFound

\* C6: every Get returns exactly one of a value with no error, ErrNotFound, or
\* the wrapped remote error; the wrapped error is returned exactly when the
\* remote lookup failed, it is not ErrNotFound, and the LRU then holds nothing
\* for the key.
C6_GetTrichotomy ==
    (hist # <<>> /\ hist[1].op = "Get")
        => /\ \/ hist[1].val \in Values /\ hist[1].err = NilErr
              \/ hist[1].val = NoValue /\ hist[1].err = ErrNotFound
              \/ hist[1].val = NoValue /\ hist[1].err = RedisGetErr
           /\ (hist[1].err = RedisGetErr) <=> (hist[1].remote = "err")
           /\ (hist[1].err = ErrNotFound) <=> (hist[1].remote = "nil")
           /\ RedisGetErr # ErrNotFound
           /\ hist[1].remote = "err" => ~Contains(memCache, hist[1].id)

C6_Witness ==
    /\ hist # <<>>
    /\ hist[1].op = "Get"
    /\ hist[1].remote = "err"
    /\ hist[1].held # NoValue
    /\ hist[1].err = RedisGetErr

\* C7: when the remote write of Set(k, v) fails, Set returns all the same, the
\* LRU keeps {v, now + defaultTTL} for k, and a Get(k) that directly follows
\* within the TTL returns v from the LRU.
C7_SetSwallowsRemoteFailure ==
    /\ (hist # <<>> /\ hist[1].op = "Set" /\ hist[1].remote = "err")
        => /\ hist[1].err = NoReturn
           /\ HoldsOnly(memCache, hist[1].id, hist[1].arg, hist[1].at + defaultTTL)
    /\ (GetWithinTTL /\ hist[2].op = "Set" /\ hist[2].remote = "err")
        => /\ hist[1].val = hist[2].arg
           /\ hist[1].err = NilErr
           /\ hist[1].calls = <<"memCache.Get">>

C7_Witness ==
    /\ GetWithinTTL
    /\ hist[2].op = "Set"
    /\ hist[2].remote = "err"
    /\ hist[1].held = NoValue
    /\ hist[1].val = hist[2].arg

C8_WriteThrough ==
    (/\ hist # <<>>
     /\ hist[1].op = "Set"
     /\ hist[1].remote = "ok"
     /\ hist[1].at = now)
        => /\ HoldsOnly(memCache, hist[1].id, hist[1].arg, hist[1].at + defaultTTL)
           /\ redisClient[hist[1].id] =
                  [present |-> TRUE, value |-> hist[1].arg,
                   expiresAt |-> hist[1].at + defaultTTL]

\* C9: an insertion (by Set, or by the repopulation of Get) of a key the LRU
\* does not hold into an LRU that is full drops exactly the key that was
\* least recently inserted or hit, and nothing is dropped while the LRU is not
\* full; apart from that a key leaves the LRU only by its own Purge or stale
\* Get.  A Get on a key the LRU does not hold goes to the remote store, and if
\* the store holds the key and answers, the Get returns its value and the key
\* is in the LRU again, as the most recent one.
C9_LeastRecentlyAccessedEvicted ==
    [][LET gone == {k \in AllKeys : Contains(memCache, k) /\ ~Contains(memCache', k)}
           inserted == {k \in AllKeys : ~Contains(memCache, k) /\ Contains(memCache', k)}
           rec == hist'[1]
       IN  /\ (inserted # {} /\ Len(memCache) = maxMemEntries)
                => access # <<>> /\ gone = {access[Len(access)]}
           /\ (inserted # {} /\ Len(memCache) < maxMemEntries) => gone = {}
           /\ (inserted = {} /\ gone # {})
                => /\ gone = {rec.id}
                   /\ rec.op = "Purge" \/ (rec.op = "Get" /\ rec.local = "stale")
           /\ (hist' # hist /\ rec.op = "Get" /\ rec.local = "absent")
                => /\ \E i \in DOMAIN rec.calls : rec.calls[i] = "redisClient.Get"
                   /\ (rec.held # NoValue /\ rec.remote # "err")
                        => /\ rec.val = rec.held
                           /\ rec.err = NilErr
                           /\ Head(memCache').key = rec.id
                           /\ Len(memCache') <= maxMemEntries]_vars

\* an LRU of two entries is full, a third key is held by the remote store
\* only, and the latest call is a Get that found its key gone from the LRU,
\* fetched it from the remote store and put it back
C9_Witness ==
    /\ Len(hist) = 2
    /\ hist[1].op = "Get"
    /\ hist[1].local = "absent"
    /\ hist[1].remote = "hit"
    /\ hist[2].op = "Set"
    /\ hist[2].id # hist[1].id
    /\ maxMemEntries = 2
    /\ Len(memCache) = 2
    /\ memCache[1].key = hist[1].id
    /\ memCache[2].key = hist[2].id
    /\ \E k \in AllKeys : ~Contains(memCache, k) /\ redisClient[k].present

\* C10: the LRU never holds more entries than the configured MaxMemEntries,
\* whatever calls of Get, Set, Purge and Stats run and however their steps
\* interleave.
C10_BoundedLocalLayer == Len(memCache) <= maxMemEntries

\* the LRU is full, a key lives in the remote store only, and two callers are
\* in the middle of calls, one of them about to insert into the full LRU
C10_Witness ==
    /\ Len(memCache) = maxMemEntries
    /\ pc["p1"] = "get_add"
    /\ ~Contains(memCache, local["p1"].id)
    /\ pc["p2"] = "set_redis"
    /\ \E k \in Keys : ~Contains(memCache, k) /\ redisClient[k].present

\* the step is a call of op that has just returned
Called(op) ==
    /\ hist' # hist
    /\ hist'[1].op = op
    /\ hist'[1].at = now

Range(f) == {f[i] : i \in DOMAIN f}

\* C11: Stats returns as size the number of entries the LRU holds and as keys
\* exactly the keys the LRU holds, each once (after Set of two distinct keys
\* into an LRU of two entries or more: size 2 and those two keys), whatever the
\* remote store holds, and it changes neither the LRU nor the remote store.
C11_StatsAccuracy ==
    [][Called("Stats") =>
        LET rec == hist'[1]
        IN  /\ rec.memLen = Cardinality({k \in AllKeys : Seen(memCache, k, now) # "absent"})
            /\ Len(rec.memKeys) = rec.memLen
            /\ Range(rec.memKeys) = {k \in AllKeys : Seen(memCache, k, now) # "absent"}
            /\ (/\ Len(hist) = 2
                /\ hist[1].op = "Set"
                /\ hist[2].op = "Set"
                /\ hist[1].id # hist[2].id
                /\ maxMemEntries >= 2)
                => /\ rec.memLen = 2
                   /\ Range(rec.memKeys) = {hist[1].id, hist[2].id}
            /\ memCache' = memCache
            /\ redisClient' = redisClient]_vars

\* Stats has returned size 2 and both keys, one of them stale in the LRU,
\* while the remote store holds one key only
C11_Witness ==
    /\ Len(hist) = 2
    /\ hist[1].op = "Stats"
    /\ hist[1].memLen = 2
    /\ Range(hist[1].memKeys) = Keys
    /\ hist[2].op = "Set"
    /\ \E k \in Keys : Seen(memCache, k, now) = "stale"
    /\ Cardinality({k \in Keys : redisClient[k].present}) = 1

\* the remote copy b of a key is the copy a, one tick older
Aged(a, b) ==
    /\ a.present
    /\ a.expiresAt # NoExpiry
    /\ \/ b = [a EXCEPT !.expiresAt = @ - 1]
       \/ ~b.present /\ a.expiresAt - 1 <= now

\* C12: a Get leaves the remote store as it is, value and expiry of every key:
\* one that hits locally makes no remote call, one that is served from the
\* remote store makes the lookup only and returns what the store holds.  The
\* remote store comes to hold a key, another value or another expiry by a
\* Set of that key only, and loses a key by a Purge of it or by its expiry.
C12_GetLeavesRemoteAlone ==
    [][/\ Called("Get") =>
            LET rec == hist'[1]
            IN  /\ redisClient' = redisClient
                /\ \A i \in DOMAIN rec.calls :
                       rec.calls[i] \notin {"redisClient.Set", "redisClient.Del"}
                /\ rec.local = "fresh" => NoRemoteCall(rec) /\ rec.remote = "none"
                /\ rec.remote = "hit" =>
                       /\ redisClient'[rec.id].present
                       /\ redisClient'[rec.id].value = rec.val
                       /\ redisClient'[rec.id].expiresAt = redisClient[rec.id].expiresAt
       /\ \A k \in AllKeys :
            LET a == redisClient[k]
                b == redisClient'[k]
            IN  /\ (b.present /\ b # a /\ ~Aged(a, b))
                        => (Called("Set") /\ hist'[1].id = k)
                /\ (a.present /\ ~b.present /\ ~Aged(a, b))
                        => (Called("Purge") /\ hist'[1].id = k)]_vars

\* a Get has just been served from the remote store and has put the value
\* back into the LRU for a whole defaultTTL, while the remote copy expires
\* sooner than that
C12_Witness ==
    /\ hist # <<>>
    /\ hist[1].op = "Get"
    /\ hist[1].at = now
    /\ hist[1].remote = "hit"
    /\ HoldsOnly(memCache, hist[1].id, hist[1].val, now + defaultTTL)
    /\ redisClient[hist[1].id].present
    /\ redisClient[hist[1].id].expiresAt # NoExpiry
    /\ redisClient[hist[1].id].expiresAt < now + defaultTTL

\* the states of one key
LocalFresh(m, k) == Seen(m, k, now) = "fresh"
RemoteFresh(r, k) == Held(r, k, now) # NoValue
Absent(m, r, k) == ~LocalFresh(m, k) /\ ~RemoteFresh(r, k)

\* the step is a call of op on key k that has just returned
CalledOn(op, k) == Called(op) /\ hist'[1].id = k

\* the step is one tick of the clock and nothing else
ClockOnly ==
    /\ memCache' = MemTick(memCache)
    /\ redisClient' = RedisTick(redisClient)
    /\ hist' = HistTick(hist, defaultTTL)

\* C13 (as claimed): with defaultTTL > 0 and a remote store that answers, once
\* a Get(k) has repopulated the LRU from the remote store, the step by which
\* the remote store stops holding k (its TTL passes, or a Purge deletes it)
\* brings k to Absent, neither layer holding a live copy, and a Get(k) that
\* directly follows the repopulating Get after the remote copy is gone returns
\* ErrNotFound.
C13_Lifecycle ==
    [][\A k \in AllKeys :
        (/\ defaultTTL > 0
         /\ hist # <<>>
         /\ hist[1].op = "Get"
         /\ hist[1].id = k
         /\ hist[1].remote = "hit")
        => /\ (/\ RemoteFresh(redisClient, k)
                /\ ~RemoteFresh(redisClient', k)
                /\ (ClockOnly \/ CalledOn("Purge", k)))
                => Absent(memCache', redisClient', k)
           /\ (CalledOn("Get", k) /\ ~RemoteFresh(redisClient, k)
                    /\ hist'[1].remote # "err")
                => hist'[1].err = ErrNotFound]_vars

\* C13 as amended: the states of one key k under the calls of one caller.
\*   Set(k, v) whose remote write succeeds: the remote store holds v, the LRU
\*     holds v with an expiry no later than the remote one, fresh if it is in
\*     the future;
\*   a fresh local copy goes stale when the clock reaches its expiry, or
\*     when a Set puts in its place a copy that the clock overtakes while the
\*     Set is on its way to the remote store, never by a Get;
\*   Get(k) while the local copy is not fresh and the remote store holds k and
\*     answers: returns the remote value, leaves the remote copy as it is and
\*     the LRU with {value, now + defaultTTL};
\*   Purge(k): the LRU drops k, and the remote store too when the delete
\*     succeeds, so that k is Absent;
\*   the remote store loses k otherwise only when the clock reaches the
\*     remote expiry, and a local copy with a later expiry stays fresh: while
\*     it is, Get(k) returns its value without a remote call (the key is not
\*     Absent);
\*   Get(k) when k is Absent and the lookup is answered: ErrNotFound, and k
\*     stays Absent.
C13_LifecycleWithLocalCopy ==
    [][\A k \in AllKeys :
        LET rec == hist'[1]
            m == memCache
            r == redisClient
        IN  /\ (CalledOn("Set", k) /\ rec.remote = "ok")
                => /\ RemoteFresh(redisClient', k)
                   /\ redisClient'[k].value = rec.arg
                   /\ Len(SelectSeq(memCache', LAMBDA e : e.key = k)) = 1
                   /\ Peek(memCache', k).value = rec.arg
                   /\ Peek(memCache', k).expiresAt <= now + defaultTTL
                   /\ redisClient'[k].expiresAt # NoExpiry
                        => Peek(memCache', k).expiresAt <= redisClient'[k].expiresAt
            /\ (LocalFresh(m, k) /\ Seen(memCache', k, now) = "stale")
                => /\ ~CalledOn("Get", k)
                   /\ ~CalledOn("Purge", k)
                   /\ ~Called("Stats")
                   /\ Peek(m, k).expiresAt = now + 1 \/ defaultTTL <= 1
            /\ (CalledOn("Get", k) /\ ~LocalFresh(m, k) /\ RemoteFresh(r, k)
                    /\ rec.remote # "err")
                => /\ rec.val = r[k].value
                   /\ rec.err = NilErr
                   /\ redisClient' = r
                   /\ HoldsOnly(memCache', k, rec.val, now + defaultTTL)
                   /\ LocalFresh(memCache', k) <=> defaultTTL > 0
            /\ CalledOn("Purge", k)
                => /\ ~Contains(memCache', k)
                   /\ rec.remote = "ok" => Absent(memCache', redisClient', k)
                   /\ rec.remote = "err" => redisClient' = r
            /\ (RemoteFresh(r, k) /\ ~RemoteFresh(redisClient', k) /\ ~CalledOn("Purge", k))
                => /\ r[k].expiresAt = now + 1
                   /\ (LocalFresh(m, k) /\ Peek(m, k).expiresAt > now + 1)
                        => LocalFresh(memCache', k)
            /\ (CalledOn("Get", k) /\ LocalFresh(m, k))
                => /\ rec.val = Peek(m, k).value
                   /\ rec.err = NilErr
                   /\ NoRemoteCall(rec)
            /\ (CalledOn("Get", k) /\ Absent(m, r, k) /\ rec.remote # "err")
                => /\ rec.err = ErrNotFound
                   /\ rec.val = NoValue
                   /\ Absent(memCache', redisClient', k)]_vars

\* a Get was served from the remote store and repopulated the LRU; since then
\* the remote TTL has passed, the remote store holds the key no more, and the
\* Get that followed has returned the value from the local copy
C13_Witness ==
    /\ Len(hist) = 2
    /\ defaultTTL > 0
    /\ hist[2].op = "Get"
    /\ hist[2].remote = "hit"
    /\ hist[1].op = "Get"
    /\ hist[1].id = hist[2].id
    /\ hist[1].local = "fresh"
    /\ hist[1].held = NoValue
    /\ hist[1].val = hist[2].val
    /\ hist[1].err = NilErr

\* C14: New returns either a cache and no error or an error and no cache.  It
\* fails when MaxMemEntries <= 0, and when no Redis client is supplied and the
\* PING fails, and in no other case.  The cache it returns has an empty LRU of
\* MaxMemEntries entries, the configured DefaultTTL, and as Redis client the
\* supplied one, not pinged, or else a new one that has answered the PING.
C14_NewAllOrNothing ==
    [][(~made.called /\ made'.called) =>
        LET o == made'.opts
            r == made'
        IN  /\ r.cache <=> r.err = NilErr
            /\ o.MaxMemEntries <= 0 => ~r.cache
            /\ (o.RedisClient = NoClient /\ ~o.ping) => ~r.cache
            /\ ~r.cache => (o.MaxMemEntries <= 0 \/ (o.RedisClient = NoClient /\ ~o.ping))
            /\ ~r.cache => r.client = NoClient
            /\ r.cache =>
                /\ memCache' = <<>>
                /\ maxMemEntries' = o.MaxMemEntries
                /\ defaultTTL' = o.DefaultTTL
                /\ o.RedisClient = Supplied => (r.client = Supplied /\ ~r.pinged)
                /\ o.RedisClient = NoClient => (r.client = Created /\ r.pinged /\ o.ping)]_vars

\* New has returned a cache around a supplied client whose Redis would not
\* have answered a PING, and no call has been made yet
C14_Witness ==
    /\ made.called
    /\ made.cache
    /\ made.client = Supplied
    /\ ~made.opts.ping
    /\ ~made.pinged
    /\ memCache = <<>>
    /\ hist = <<>>

\* C15 (as claimed): a Purge(k) on a key neither layer holds leaves both
\* layers as they are, and so does a Purge(k) that directly follows a
\* Purge(k): two calls leave the state that the first has left.
C15_PurgeTwiceAsOnce ==
    [][\A k \in AllKeys : CalledOn("Purge", k) =>
        /\ hist'[1].err = NoReturn
        /\ (Seen(memCache, k, now) = "absent" /\ ~redisClient[k].present)
            => /\ memCache' = memCache
               /\ redisClient' = redisClient
        /\ (hist # <<>> /\ hist[1].op = "Purge" /\ hist[1].id = k)
            => /\ memCache' = memCache
               /\ redisClient' = redisClient]_vars

\* C15 as amended: Purge(k) returns without an error.  When neither layer holds k it
\* leaves both layers as they are.  A Purge(k) that directly follows a
\* Purge(k) leaves the LRU as it is, and the remote store too, unless the
\* delete of the first call failed and its own succeeds: the two calls then
\* leave what one call with a successful delete leaves, k gone from the remote
\* store and every other key as it was.
C15_PurgeIdempotent ==
    [][\A k \in AllKeys : CalledOn("Purge", k) =>
        LET rec == hist'[1]
        IN  /\ rec.err = NoReturn
            /\ rec.val = NoValue
            /\ (Seen(memCache, k, now) = "absent" /\ ~redisClient[k].present)
                => /\ memCache' = memCache
                   /\ redisClient' = redisClient
            /\ (hist # <<>> /\ hist[1].op = "Purge" /\ hist[1].id = k)
                => /\ memCache' = memCache
                   /\ (hist[1].remote = "ok" \/ rec.remote = "err")
                        => redisClient' = redisClient
                   /\ (hist[1].remote = "err" /\ rec.remote = "ok")
                        => /\ ~redisClient'[k].present
                           /\ \A j \in AllKeys \ {k} : redisClient'[j] = redisClient[j]]_vars

\* Purge(k) has removed k from both layers, a second Purge(k) has followed
\* and found nothing, while the other key is still held by both layers
C15_Witness ==
    /\ Len(hist) = 2
    /\ hist[2].op = "Purge"
    /\ hist[2].remote = "ok"
    /\ hist[2].held # NoValue
    /\ hist[1].op = "Purge"
    /\ hist[1].id = hist[2].id
    /\ hist[1].local = "absent"
    /\ hist[1].held = NoValue
    /\ \E j \in Keys : j # hist[1].id /\ Contains(memCache, j) /\ redisClient[j].present

\* C16: with defaultTTL = 0 every entry of the LRU, put there by Set or by the
\* repopulation of Get, has an expiresAt that is not in the future, so that
\* no Get is answered from the LRU: every Get looks the key up in the LRU
\* first and then in the remote store.
C16_ZeroTTLNoLocalHit ==
    defaultTTL = 0 =>
        /\ \A i \in DOMAIN memCache : ~(now < memCache[i].expiresAt)
        /\ (hist # <<>> /\ hist[1].op = "Get")
            => /\ hist[1].local \in {"absent", "stale"}
               /\ hist[1].remote \in {"hit", "nil", "err"}
               /\ \E i \in DOMAIN hist[1].calls : hist[1].calls[i] = "redisClient.Get"

\* with defaultTTL = 0, a Get that directly follows a Set of its key has
\* found the entry stale, has fetched the value from the remote store and has
\* put it back, stale again
C16_Witness ==
    /\ defaultTTL = 0
    /\ Len(hist) = 2
    /\ hist[2].op = "Set"
    /\ hist[1].op = "Get"
    /\ hist[1].id = hist[2].id
    /\ hist[1].local = "stale"
    /\ hist[1].remote = "hit"
    /\ hist[1].val = hist[2].arg
    /\ Seen(memCache, hist[1].id, now) = "stale"

\* C17: a Get(k) that begins after a Purge(k) has returned, both deletes
\* done, returns ErrNotFound when no Set(k, .) ran while the Purge did or has
\* begun since, whatever Get(k) calls were running while the Purge ran.
C17_PurgeVisibleUnderConcurrency ==
    (obs.ret # NoRet /\ obs.ret.after)
        => /\ obs.ret.err = ErrNotFound
           /\ obs.ret.val = NoValue

\* C18: a caller enters the remote write of Set (line 123) only by the step
\* that inserts into the LRU (lines 119-121), which leaves the remote store
\* alone; the remote write is a later step of its own, which leaves the LRU
\* alone, and the remote store gets a value in no other way.  Between the two
\* steps the LRU holds the new value and the remote store may not, and a Get
\* of another caller returns the new value then.
C18_SetLocalThenRemote ==
    [][/\ \A p \in Procs :
            /\ (pc[p] # "set_redis" /\ pc'[p] = "set_redis")
                => /\ pc[p] = "idle"
                   /\ HoldsOnly(memCache', local'[p].id, local'[p].value,
                                now + defaultTTL)
                   /\ redisClient' = redisClient
            /\ (pc[p] = "set_redis" /\ pc'[p] # "set_redis")
                => /\ pc'[p] = "idle"
                   /\ redisClient'[local[p].id].present
                   /\ redisClient'[local[p].id].value = local[p].value
                   /\ memCache' = memCache
       /\ \A k \in AllKeys :
            (/\ redisClient'[k].present
             /\ redisClient'[k] # redisClient[k]
             /\ ~Aged(redisClient[k], redisClient'[k]))
            => \E p \in Procs :
                  /\ pc[p] = "set_redis"
                  /\ pc'[p] = "idle"
                  /\ local[p].id = k
                  /\ local[p].value = redisClient'[k].value]_vars

\* a Set is between its two writes: the LRU holds its value, the remote store
\* holds another one, and the Get of the other caller has just returned the
\* new value
C18_Witness ==
    /\ pc["p1"] = "set_redis"
    /\ pc["p2"] = "idle"
    /\ LocalFresh(memCache, local["p1"].id)
    /\ Peek(memCache, local["p1"].id).value = local["p1"].value
    /\ RemoteFresh(redisClient, local["p1"].id)
    /\ redisClient[local["p1"].id].value # local["p1"].value
    /\ obs.ret = Ret("p2", local["p1"].id, local["p1"].value, NilErr, FALSE)

\* C19: the entry that the Remove of Get (line 96) takes out of the LRU is a
\* stale one, however the steps of Get(k) and of the Set(k, .) calls of other
\* callers interleave.
C19_GetRemovesOnlyStale ==
    [][\A p \in Procs :
        (/\ pc[p] = "get_remove"
         /\ pc'[p] = "get_redis"
         /\ Contains(memCache, local[p].id))
        => Seen(memCache, local[p].id, now) = "stale"]_vars

\* C20: when no call is running (in SpecRace every remote call has succeeded
\* and the callers are the only writers of the remote store), an unexpired
\* entry of the LRU for k and the remote copy of k hold the same value.
C20_LayersAgreeWhenQuiet ==
    (\A p \in Procs : pc[p] = "idle")
        => \A k \in AllKeys :
              (LocalFresh(memCache, k) /\ RemoteFresh(redisClient, k))
                  => Peek(memCache, k).value = redisClient[k].value

\* C21: with one caller, the value a Get(k) returns was written by a
\* Set(k, .) that returned at most 2 x defaultTTL before the Get did.
C21_StalenessBound ==
    obs.got # NoGot => obs.got.age <= 2 * defaultTTL

====
